---- MODULE Spec2Model ----
(***************************************************************************)
(* A model of the Sequencer repository: the BeatTimeline value, the        *)
(* BasicNoteSequence container and the Sequencer scheduling loop together  *)
(* with the host's timer service and the audio clock.                      *)
(*                                                                         *)
(* JavaScript numbers are modelled as exact rationals <<n, d>> with d > 0  *)
(* in lowest terms; the JavaScript value undefined is <<0, 0>>.            *)
(***************************************************************************)
EXTENDS Integers, Sequences, FiniteSets, TLC

(***************************************************************************)
(* Numbers                                                                 *)
(***************************************************************************)
Abs(x) == IF x < 0 THEN -x ELSE x

RECURSIVE GCD(_, _)
GCD(a, b) == IF b = 0 THEN a ELSE GCD(b, a % b)

Rat(n, d) ==
    LET g == GCD(Abs(n), Abs(d))
        s == IF d < 0 THEN -1 ELSE 1
    IN  <<(s * n) \div g, (s * d) \div g>>

Num(n) == <<n, 1>>

Undefined == <<0, 0>>

Add(a, b) == Rat(a[1] * b[2] + b[1] * a[2], a[2] * b[2])

Sub(a, b) == Rat(a[1] * b[2] - b[1] * a[2], a[2] * b[2])

Mul(a, b) == Rat(a[1] * b[1], a[2] * b[2])

Div(a, b) == Rat(a[1] * b[2], a[2] * b[1])

Geq(a, b) == a[1] * b[2] >= b[1] * a[2]

Lt(a, b) == a[1] * b[2] < b[1] * a[2]

(***************************************************************************)
(* Bounds of the model                                                     *)
(***************************************************************************)
\* The audio clock is observed every ClockStep seconds.
ClockStep == Rat(1, 10)

\* The audio clock runs for MaxTime steps.
MaxTime == 3

\* The number of calls in one run that change the sequencer: the play, pause
\* and stop calls that register a timeout, and the changeTempo calls.
MaxCalls == 3

\* The delays (seconds from now) passed to play and to pause.
Delays == {Num(0), Rat(1, 10)}

\* The delays (seconds from now) passed to stop.
StopDelays == {Num(0)}

InitialTempos == {Num(1800)}

Tempos == {Num(900)}

(***************************************************************************)
(* BeatTimeline                                                            *)
(***************************************************************************)
BeatTimelineInit(beatsPerMinute, referenceBeat, referenceTime) ==
    [beatsPerMinute |-> beatsPerMinute,
     referenceBeat  |-> IF referenceBeat = Undefined THEN Num(0) ELSE referenceBeat,
     referenceTime  |-> IF referenceTime = Undefined THEN Num(0) ELSE referenceTime]

timeFor(T, beat) ==
    LET beatsSinceReference   == Sub(beat, T.referenceBeat)
        secondsSinceReference == Div(Mul(beatsSinceReference, Num(60)), T.beatsPerMinute)
    IN  Add(T.referenceTime, secondsSinceReference)

\* A beatFor that counts the beats from beat 0 at the reference time.
beatForFromZero(T, time) ==
    Div(Mul(Sub(time, T.referenceTime), T.beatsPerMinute), Num(60))

beatFor(T, time) ==
    LET secondsSinceReference == Sub(time, T.referenceTime)
        beatsSinceReference   == Div(Mul(secondsSinceReference, T.beatsPerMinute), Num(60))
    IN  Add(T.referenceBeat, beatsSinceReference)

\* A shift that applies the time delay only.
copyTimeShiftedByTimeOnly(T, beatDelay, timeDelay) ==
    BeatTimelineInit(T.beatsPerMinute,
                     T.referenceBeat,
                     Add(timeFor(T, T.referenceBeat), timeDelay))

\* A shift that moves the reference beat along with the reference time.
copyTimeShiftedWithBeat(T, beatDelay, timeDelay) ==
    BeatTimelineInit(T.beatsPerMinute,
                     Add(T.referenceBeat, beatDelay),
                     Add(timeFor(T, Add(T.referenceBeat, beatDelay)), timeDelay))

copyTimeShifted(T, beatDelay, timeDelay) ==
    BeatTimelineInit(T.beatsPerMinute,
                     T.referenceBeat,
                     Add(timeFor(T, Add(T.referenceBeat, beatDelay)), timeDelay))

\* A restart that keeps the receiver's reference time.
copyStartingAtKeepingTime(T, referenceTime, referenceBeat) ==
    BeatTimelineInit(T.beatsPerMinute, referenceBeat, T.referenceTime)

\* A restart that always anchors beat 0.
copyStartingAtBeatZero(T, referenceTime, referenceBeat) ==
    BeatTimelineInit(T.beatsPerMinute, Undefined, referenceTime)

copyStartingAt(T, referenceTime, referenceBeat) ==
    BeatTimelineInit(T.beatsPerMinute, referenceBeat, referenceTime)

\* A tempo change that places the pivot beat with the new tempo.
withTempoPivotAtNewTempo(T, newTempo, fromBeat) ==
    BeatTimelineInit(newTempo, fromBeat,
                     timeFor([T EXCEPT !.beatsPerMinute = newTempo], fromBeat))

\* A tempo change that keeps the old reference point.
withTempoKeepingReference(T, newTempo, fromBeat) ==
    BeatTimelineInit(newTempo, T.referenceBeat, T.referenceTime)

withTempo(T, newTempo, fromBeat) ==
    BeatTimelineInit(newTempo, fromBeat, timeFor(T, fromBeat))

\* A copy whose init runs on the receiver instead of on a new object.
initInPlace(this, fields) == [receiver |-> fields, returned |-> fields]

\* newTimeline = Object.create(Object.getPrototypeOf(this)) followed by
\* newTimeline.init(fields): the receiver as the call leaves it, and the
\* object handed back.
createTimeline(this, fields) == [receiver |-> this, returned |-> fields]

(***************************************************************************)
(* OctaveScale                                                             *)
(***************************************************************************)
\* Math.trunc(a / b) for integers a and b > 0: the quotient rounded towards 0.
truncDivide(a, b) == IF a >= 0 THEN a \div b ELSE -((-a) \div b)

\* a % b of JavaScript for integers a and b > 0: the remainder has the sign
\* of a.
remainder(a, b) == IF a >= 0 THEN a % b ELSE -((-a) % b)

\* A JavaScript number that is an integer, or NaN.
Number(n) == [nan |-> FALSE, n |-> n]

NaN == [nan |-> TRUE, n |-> 0]

\* array[index]: undefined off the array, which the sum below turns into NaN.
elementAt(array, index) ==
    IF index \in 0..(Len(array) - 1) THEN Number(array[index + 1]) ELSE NaN

OctaveScale(scaleNotes, octave) == [notes |-> scaleNotes, octave |-> octave]

\* The index frequencyOf reads this.notes at.
noteIndex(S, noteNumber) == remainder(noteNumber, Len(S.notes))

\* The extended note number frequencyOf hands to the tuning system.
extendedNoteNumber(S, noteNumber) ==
    LET divide == truncDivide(noteNumber, Len(S.notes))
        note   == elementAt(S.notes, noteIndex(S, noteNumber))
    IN  IF note.nan THEN NaN ELSE Number((divide + S.octave) * 12 + note.n)

\* OctaveScale.frequencyOf with the equal-tempered tuning system: 440 Hz
\* times 2 to the power semitones / 12, kept as the number of semitones.
frequencyOf(S, noteNumber) == [semitones |-> extendedNoteNumber(S, noteNumber)]

(***************************************************************************)
(* MinHeap                                                                 *)
(***************************************************************************)
leftChildIndex(parentIndex_) == (parentIndex_ * 2) + 1

rightChildIndex(parentIndex_) == (parentIndex_ * 2) + 2

parentIndex(childIndex) == truncDivide(childIndex - 1, 2)

\* Swaps the elements at two zero-based indexes of the tree.
swapElements(tree_, firstIndex, secondIndex) ==
    [tree_ EXCEPT ![firstIndex + 1] = tree_[secondIndex + 1],
                  ![secondIndex + 1] = tree_[firstIndex + 1]]

\* this.tree[index] || Infinity: Infinity for an index off the tree and for
\* an element that is 0.
childOrInfinity(tree_, index) ==
    IF index < Len(tree_) /\ tree_[index + 1] # 0
    THEN [infinite |-> FALSE, n |-> tree_[index + 1]]
    ELSE [infinite |-> TRUE, n |-> 0]

\* a < b for numbers that may be Infinity.
lessThan(a, b) == ~a.infinite /\ (b.infinite \/ a.n < b.n)

RECURSIVE bubbleUp(_, _)
bubbleUp(tree_, childIndex) ==
    LET parent == parentIndex(childIndex)
    IN  IF tree_[childIndex + 1] < tree_[parent + 1]
        THEN bubbleUp(swapElements(tree_, childIndex, parent), parent)
        ELSE tree_

\* this.tree[minChildIndex] < this.tree[parentIndex] is false when
\* minChildIndex is off the tree (undefined < x).
RECURSIVE bubbleDown(_, _)
bubbleDown(tree_, parentIndex_) ==
    LET leftChild     == childOrInfinity(tree_, leftChildIndex(parentIndex_))
        rightChild    == childOrInfinity(tree_, rightChildIndex(parentIndex_))
        minChildIndex == IF lessThan(leftChild, rightChild)
                         THEN leftChildIndex(parentIndex_)
                         ELSE rightChildIndex(parentIndex_)
    IN  IF /\ minChildIndex < Len(tree_)
           /\ parentIndex_ < Len(tree_)
           /\ tree_[minChildIndex + 1] < tree_[parentIndex_ + 1]
        THEN bubbleDown(swapElements(tree_, minChildIndex, parentIndex_),
                        minChildIndex)
        ELSE tree_

add(tree_, element) == bubbleUp(Append(tree_, element), Len(tree_))

\* removeMin on a tree that is not empty: the element handed back and the
\* tree left behind.
removeMin(tree_) ==
    LET swapped == swapElements(tree_, 0, Len(tree_) - 1)
    IN  [minElement |-> swapped[Len(swapped)],
         tree       |-> bubbleDown(SubSeq(swapped, 1, Len(swapped) - 1), 0)]

min(tree_) == tree_[1]

size(tree_) == Len(tree_)

isEmpty(tree_) == size(tree_) = 0

(***************************************************************************)
(* BasicNoteSequence                                                       *)
(***************************************************************************)
Note(id, start, length, number) ==
    [id |-> id, start |-> start, length |-> length, number |-> number]

RECURSIVE findFrom(_, _, _)
findFrom(ns, beat, i) ==
    IF i > Len(ns) THEN Len(ns)
    ELSE IF Geq(Num(ns[i].start), beat) THEN i - 1
    ELSE findFrom(ns, beat, i + 1)

\* The zero-based index of the first note whose start is >= beat.
findPosition(ns, beat) == findFrom(ns, beat, 1)

\* Array.prototype.slice(from, to) for 0 <= from, to <= length.
Slice(ns, from, to) ==
    IF to <= from THEN <<>> ELSE [i \in 1..(to - from) |-> ns[from + i]]

\* A getNotes whose range includes the notes starting at endBeat.
getNotesThroughEnd(ns, startBeat, endBeat) ==
    Slice(ns, findPosition(ns, startBeat), findPosition(ns, Add(endBeat, Num(1))))

getNotes(ns, startBeat, endBeat) ==
    Slice(ns, findPosition(ns, startBeat), findPosition(ns, endBeat))

NoteSequences ==
    { <<Note(1, 0, 1, 1), Note(2, 1, 1, 2), Note(3, 1, 2, 4), Note(4, 6, 1, 3)>> }

\* A note object is known by its reference, the id field; two objects with
\* different ids may carry equal start, length and number.

RECURSIVE indexFrom(_, _, _)
indexFrom(ns, note, i) ==
    IF i > Len(ns) THEN -1
    ELSE IF ns[i].id = note.id THEN i - 1
    ELSE indexFrom(ns, note, i + 1)

\* Array.prototype.indexOf(note): the zero-based index of the first entry
\* that is this object, or -1.
indexOf(ns, note) == indexFrom(ns, note, 1)

\* Array.prototype.splice(position, 0, note)
spliceIn(ns, position, note) ==
    SubSeq(ns, 1, position) \o <<note>> \o SubSeq(ns, position + 1, Len(ns))

\* Array.prototype.splice(position, 1)
spliceOut(ns, position) ==
    SubSeq(ns, 1, position) \o SubSeq(ns, position + 2, Len(ns))

\* An assignment to the fields of a note object shows through every stored
\* reference to that object.
assign(ns, note) ==
    [i \in 1..Len(ns) |-> IF ns[i].id = note.id THEN note ELSE ns[i]]

\* One notify() per registered listener, in order; seen is what the listener
\* finds in the stored notes when it is called.
notifyListeners(ls, ns) ==
    [i \in 1..Len(ls) |-> [listener |-> ls[i], seen |-> ns]]

\* An insertion at the end of the array, whatever the note's start.
addNoteAtEnd(ns, ls, note) ==
    LET stored == spliceIn(ns, Len(ns), note)
    IN  [notes |-> stored, notified |-> notifyListeners(ls, stored)]

\* An insertion after the stored notes of equal start.
addNoteAfterTies(ns, ls, note) ==
    LET position == findPosition(ns, Add(Num(note.start), Rat(1, 2)))
        stored   == spliceIn(ns, position, note)
    IN  [notes |-> stored, notified |-> notifyListeners(ls, stored)]

addNote(ns, ls, note) ==
    LET position == findPosition(ns, Num(note.start))
        stored   == spliceIn(ns, position, note)
    IN  [notes |-> stored, notified |-> notifyListeners(ls, stored)]

\* A removal that looks the note up by its start, length and number.
removeNoteByValue(ns, ls, note) ==
    LET same(i) == /\ ns[i].start = note.start
                   /\ ns[i].length = note.length
                   /\ ns[i].number = note.number
        found    == {i \in 1..Len(ns) : same(i)}
        position == IF found = {} THEN -1
                    ELSE (CHOOSE i \in found : \A j \in found : i <= j) - 1
        stored   == IF position # -1 THEN spliceOut(ns, position) ELSE ns
    IN  [notes |-> stored, notified |-> notifyListeners(ls, stored)]

removeNote(ns, ls, note) ==
    LET position == indexOf(ns, note)
        stored   == IF position # -1 THEN spliceOut(ns, position) ELSE ns
    IN  [notes |-> stored, notified |-> notifyListeners(ls, stored)]

moveNote(ns, ls, note, newStart, newPitch) ==
    LET removed     == removeNote(ns, ls, note)
        newPosition == findPosition(removed.notes, Num(newStart))
        moved       == [note EXCEPT !.start = newStart, !.number = newPitch]
        stored      == spliceIn(assign(removed.notes, moved), newPosition, moved)
    IN  [notes    |-> stored,
         note     |-> moved,
         notified |-> removed.notified \o notifyListeners(ls, stored)]

(***************************************************************************)
(* Sequencer                                                               *)
(***************************************************************************)
VARIABLES
    currentTime,    \* audioContext.currentTime
    timeline,       \* this.timeline
    playing,        \* this.playing
    beatNumber,     \* this.beatNumber
    resumeBeat,     \* this.resumeBeat
    intervalID,     \* this.intervalID (0: undefined)
    timers,         \* the host's pending timeouts and registered intervals
    nextTimer,      \* the next timer handle the host hands out
    notes,          \* this.noteSequence.notes
    output,         \* the tones submitted to the audio context, in order
    calls,          \* the number of calls that changed the sequencer so far
    lastOp,         \* the operation that produced this state
    stopRan,        \* stop's deferred action has run and play was not called since
    tempoChange,    \* the last changeTempo call and what happened since
    pool,           \* the note objects the client holds, by reference
    listeners,      \* this.noteSequence.listeners
    notified,       \* the notify() calls of the last operation, in order
    seqCall,        \* the last call on the note sequence and what it returned
    probe,          \* the last call on a timeline value and what it returned
    scale,          \* this.scale
    frequency,      \* the last frequencyOf call on the scale and its result
    tree,           \* the tree of a MinHeap
    heapLog,        \* the calls made on the MinHeap so far
    callLimit,      \* the number of calls the client makes in this run
    blocks,         \* the blocks of a NoteDisplay's this.blocks, in Map order
    nextId,         \* the next value of NoteBlock.idGenerator
    click           \* the last click on the display and what it found

vars == <<currentTime, timeline, playing, beatNumber, resumeBeat, intervalID,
          timers, nextTimer, notes, output, calls, lastOp,
          stopRan, tempoChange, pool, listeners, notified, seqCall, probe,
          scale, frequency, tree, heapLog, callLimit, blocks, nextId, click>>

\* The display of a note sequence.
displayVars == <<blocks, nextId, click>>

\* The scale, the heap and the display, which the scheduling loop does not
\* write.
libraryVars == <<scale, frequency, tree, heapLog, displayVars>>

\* The scale of the demonstration page.
MajorPentatonicScale == OctaveScale(<<0, 2, 4, 7, 9>>, 0)

\* No frequency was asked of the scale yet.
NoFrequency == [op |-> "init", noteNumber |-> 0, value |-> frequencyOf(MajorPentatonicScale, 0)]

\* No call was made on the heap yet: the phase of the run ("adding" while
\* only add was called on a heap that was empty, "removing" while only
\* removeMin was called since, "mixed" otherwise), the elements handed back
\* by removeMin in this phase, and the numbers of add and removeMin calls.
NoHeapLog == [phase |-> "adding", removed |-> <<>>, adds |-> 0, removes |-> 0]

\* No click was made on the display yet.
NoClick == [set |-> FALSE, x |-> 0, y |-> 0, notCovered |-> TRUE]

\* A display that drew no block.
DisplayIdle ==
    /\ blocks = <<>>
    /\ nextId = 0
    /\ click = NoClick

LibraryInit ==
    /\ scale = MajorPentatonicScale
    /\ frequency = NoFrequency
    /\ tree = <<>>
    /\ heapLog = NoHeapLog
    /\ DisplayIdle

\* The note sequence's listeners and the state of its clients.
seqVars == <<pool, listeners, notified, seqCall>>

lookahead == Rat(1, 10)

scheduleIntervalMs == 25

loopLength == 8

Seconds(ms) == Rat(ms, 1000)

\* The label of a step: the operation, and the tones a tick submitted.
Op(name) == [op |-> name, tones |-> 0]

\* window.setTimeout / window.setInterval: a new pending timer.
Timer(kind, delay, by) ==
    [id |-> nextTimer, kind |-> kind, due |-> Add(currentTime, delay), by |-> by]

\* The host runs an interval's callback once it is due, and a timeout's
\* callback once it is due and every timeout that is due earlier, or due at
\* the same time and registered earlier, has run.
Due(t) ==
    /\ Geq(currentTime, t.due)
    /\ t.kind # "interval" =>
          \A u \in timers \ {t} :
             u.kind # "interval" =>
                \/ Lt(t.due, u.due)
                \/ t.due = u.due /\ t.id < u.id

\* window.clearInterval(id)
clearInterval(ts, id) == {t \in ts : t.id # id}

Tone(T, note) ==
    [note  |-> note,
     start |-> timeFor(T, Num(note.start)),
     stop  |-> timeFor(T, Add(Num(note.start), Num(note.length)))]

\* A wrap that keeps the overshoot instead of restarting the cursor at 0.
updateBeatKeepingOvershoot(T, newBeat) ==
    IF Geq(newBeat, Num(loopLength))
    THEN [beatNumber |-> Sub(newBeat, Num(loopLength)),
          timeline   |-> copyTimeShifted(T, Num(loopLength), Num(0))]
    ELSE [beatNumber |-> newBeat, timeline |-> T]

updateBeat(T, newBeat) ==
    IF Geq(newBeat, Num(loopLength))
    THEN [beatNumber |-> Num(0),
          timeline   |-> copyTimeShifted(T, Num(loopLength), Num(0))]
    ELSE [beatNumber |-> newBeat, timeline |-> T]

\* A tick that times its tones with the timeline left by updateBeat.
scheduleNotesAfterUpdate(T, ns, cursor, now) ==
    LET endBeat == beatFor(T, Add(now, lookahead))
        found   == getNotes(ns, cursor, endBeat)
        updated == updateBeat(T, endBeat)
    IN  [tones      |-> [i \in 1..Len(found) |-> Tone(updated.timeline, found[i])],
         endBeat    |-> endBeat,
         beatNumber |-> updated.beatNumber,
         timeline   |-> updated.timeline]

\* A tick whose window also takes the notes that start at its end.
scheduleNotesThroughEnd(T, ns, cursor, now) ==
    LET endBeat == beatFor(T, Add(now, lookahead))
        found   == getNotesThroughEnd(ns, cursor, endBeat)
        updated == updateBeat(T, endBeat)
    IN  [tones      |-> [i \in 1..Len(found) |-> Tone(T, found[i])],
         endBeat    |-> endBeat,
         beatNumber |-> updated.beatNumber,
         timeline   |-> updated.timeline]

scheduleNotes(T, ns, cursor, now) ==
    LET startBeat == cursor
        endBeat   == beatFor(T, Add(now, lookahead))
        found     == getNotes(ns, startBeat, endBeat)
        updated   == updateBeat(T, endBeat)
    IN  [tones      |-> [i \in 1..Len(found) |-> Tone(T, found[i])],
         endBeat    |-> endBeat,
         beatNumber |-> updated.beatNumber,
         timeline   |-> updated.timeline]

\* No call was made on the note sequence yet.
NoCall ==
    [op |-> "init", note |-> 0, present |-> FALSE, a |-> 0, b |-> 0,
     returned |-> <<>>]

\* No call was made on the timeline under test yet.
NoProbe ==
    [op |-> "init", arg |-> Num(0), value |-> Num(0), shifts |-> 0,
     receiver |-> BeatTimelineInit(Num(0), Undefined, Undefined)]

Init ==
    /\ currentTime = Num(0)
    /\ \E tempo \in InitialTempos :
          timeline = BeatTimelineInit(tempo, Undefined, currentTime)
    /\ playing = FALSE
    /\ beatNumber = Num(0)
    /\ resumeBeat = Undefined
    /\ intervalID = 0
    /\ timers = {}
    /\ nextTimer = 1
    /\ notes \in NoteSequences
    /\ output = <<>>
    /\ lastOp = Op("init")
    /\ stopRan = FALSE
    /\ tempoChange = [set |-> FALSE, pivotBeat |-> Num(0), pivotTime |-> Num(0),
                      beatsPerMinute |-> Num(0), wrapped |-> FALSE, replayed |-> FALSE]
    /\ calls = 0
    /\ callLimit = MaxCalls
    /\ pool = notes
    /\ listeners = <<>>
    /\ notified = <<>>
    /\ seqCall = NoCall
    /\ probe = NoProbe
    /\ LibraryInit

Tick(t) ==
    /\ t \in timers /\ t.kind = "interval" /\ Due(t)
    /\ LET r == scheduleNotes(timeline, notes, beatNumber, currentTime)
       IN  /\ output' = output \o r.tones
           /\ beatNumber' = r.beatNumber
           /\ timeline' = r.timeline
           /\ lastOp' = [op |-> "tick", tones |-> Len(r.tones)]
           /\ tempoChange' =
                 [tempoChange EXCEPT
                    !.wrapped = @ \/ Geq(r.endBeat, Num(loopLength))]
    /\ timers' = (timers \ {t})
                    \cup {[t EXCEPT !.due = Add(currentTime, Seconds(scheduleIntervalMs))]}
    /\ UNCHANGED <<seqVars, probe, libraryVars, callLimit>>
    /\ UNCHANGED <<currentTime, playing, resumeBeat, intervalID, nextTimer, notes,
                   calls, stopRan>>

\* play without its guard on this.playing.
PlayUnguarded(secondsFromNow) ==
    /\ lastOp' = Op("play")
    /\ stopRan' = FALSE
    /\ calls < callLimit
    /\ calls' = calls + 1
    /\ tempoChange' = [tempoChange EXCEPT !.replayed = TRUE]
    /\ timeline' = copyStartingAt(timeline, currentTime, resumeBeat)
    /\ timers' = timers \cup {Timer("play", secondsFromNow, "play")}
    /\ nextTimer' = nextTimer + 1
    /\ UNCHANGED <<seqVars, probe, libraryVars, callLimit>>
    /\ UNCHANGED <<currentTime, playing, beatNumber, resumeBeat, intervalID, notes,
                   output>>

Play(secondsFromNow) ==
    /\ lastOp' = Op("play")
    /\ stopRan' = FALSE
    /\ IF playing # FALSE
       THEN UNCHANGED <<timeline, timers, nextTimer, calls, tempoChange>>
       ELSE /\ calls < callLimit
            /\ tempoChange' = [tempoChange EXCEPT !.replayed = TRUE]
            /\ calls' = calls + 1
            /\ timeline' = copyStartingAt(timeline, currentTime, resumeBeat)
            /\ timers' = timers \cup {Timer("play", secondsFromNow, "play")}
            /\ nextTimer' = nextTimer + 1
    /\ UNCHANGED <<seqVars, probe, libraryVars, callLimit>>
    /\ UNCHANGED <<currentTime, playing, beatNumber, resumeBeat, intervalID, notes,
                   output>>

PlayFunction(t) ==
    /\ t \in timers /\ t.kind = "play" /\ Due(t)
    /\ timers' = (timers \ {t})
                    \cup {Timer("interval", Seconds(scheduleIntervalMs), "play")}
    /\ intervalID' = nextTimer
    /\ nextTimer' = nextTimer + 1
    /\ playing' = TRUE
    /\ lastOp' = Op("playFunction")
    /\ UNCHANGED <<seqVars, probe, libraryVars, callLimit>>
    /\ UNCHANGED <<currentTime, timeline, beatNumber, resumeBeat, notes, output, calls, stopRan, tempoChange>>

\* pause without its guard on this.playing.
PauseUnguarded(secondsFromNow) ==
    /\ lastOp' = Op("pause")
    /\ calls < callLimit
    /\ calls' = calls + 1
    /\ timers' = timers \cup {Timer("pause", secondsFromNow, "pause")}
    /\ nextTimer' = nextTimer + 1
    /\ resumeBeat' = beatFor(timeline, currentTime)
    /\ UNCHANGED <<seqVars, probe, libraryVars, callLimit>>
    /\ UNCHANGED <<currentTime, timeline, playing, beatNumber, intervalID, notes,
                   output, stopRan, tempoChange>>

Pause(secondsFromNow) ==
    /\ lastOp' = Op("pause")
    /\ IF playing = FALSE
       THEN UNCHANGED <<timers, nextTimer, resumeBeat, calls>>
       ELSE /\ calls < callLimit
            /\ calls' = calls + 1
            /\ timers' = timers \cup {Timer("pause", secondsFromNow, "pause")}
            /\ nextTimer' = nextTimer + 1
            /\ resumeBeat' = beatFor(timeline, currentTime)
    /\ UNCHANGED <<seqVars, probe, libraryVars, callLimit>>
    /\ UNCHANGED <<currentTime, timeline, playing, beatNumber, intervalID, notes,
                   output, stopRan, tempoChange>>

PauseFunction(t) ==
    /\ t \in timers /\ t.kind = "pause" /\ Due(t)
    /\ timers' = clearInterval(timers \ {t}, intervalID)
    /\ playing' = FALSE
    /\ lastOp' = Op(IF t.by = "stop" THEN "stopPauseFunction" ELSE "pauseFunction")
    /\ UNCHANGED <<seqVars, probe, libraryVars, callLimit>>
    /\ UNCHANGED <<currentTime, timeline, beatNumber, resumeBeat, intervalID,
                   nextTimer, notes, output, calls, stopRan, tempoChange>>

Stop(secondsFromNow) ==
    /\ lastOp' = Op("stop")
    /\ calls < callLimit
    /\ calls' = calls + 1
    /\ timers' = timers \cup {Timer("stop", secondsFromNow, "stop")}
    /\ nextTimer' = nextTimer + 1
    /\ UNCHANGED <<seqVars, probe, libraryVars, callLimit>>
    /\ UNCHANGED <<currentTime, timeline, playing, beatNumber, resumeBeat,
                   intervalID, notes, output, stopRan, tempoChange>>

StopFunction(t) ==
    /\ t \in timers /\ t.kind = "stop" /\ Due(t)
    /\ IF playing = TRUE
       THEN /\ timers' = (timers \ {t}) \cup {Timer("pause", Num(0), "stop")}
            /\ nextTimer' = nextTimer + 1
       ELSE /\ timers' = timers \ {t}
            /\ UNCHANGED nextTimer
    /\ resumeBeat' = Num(0)
    /\ beatNumber' = Num(0)
    /\ lastOp' = Op("stopFunction")
    /\ stopRan' = (\A u \in timers : u.kind # "play")
    /\ UNCHANGED <<seqVars, probe, libraryVars, callLimit>>
    /\ UNCHANGED <<currentTime, timeline, playing, intervalID, notes, output, calls, tempoChange>>

ChangeTempo(newTempo) ==
    /\ lastOp' = Op("changeTempo")
    /\ calls < callLimit
    /\ calls' = calls + 1
    /\ timeline' = withTempo(timeline, newTempo, beatNumber)
    /\ tempoChange' = [set |-> TRUE, pivotBeat |-> beatNumber,
                       pivotTime |-> timeFor(timeline, beatNumber),
                       beatsPerMinute |-> newTempo,
                       wrapped |-> FALSE, replayed |-> FALSE]
    /\ UNCHANGED <<seqVars, probe, libraryVars, callLimit>>
    /\ UNCHANGED <<currentTime, playing, beatNumber, resumeBeat, intervalID,
                   timers, nextTimer, notes, output, stopRan>>

\* The audio clock advances on its own; the host runs a due timeout before
\* the clock is observed again, while an interval's callback may be late.
AdvanceClock ==
    /\ Lt(currentTime, Mul(Num(MaxTime), ClockStep))
    /\ \A t \in timers :
          t.kind # "interval" =>
             Lt(currentTime, t.due)
    /\ currentTime' = Add(currentTime, ClockStep)
    /\ lastOp' = Op("clock")
    /\ UNCHANGED <<seqVars, probe, libraryVars, callLimit>>
    /\ UNCHANGED <<timeline, playing, beatNumber, resumeBeat, intervalID, timers,
                   nextTimer, notes, output, calls, stopRan, tempoChange>>

Next ==
    \/ \E t \in timers : Tick(t)
    \/ \E d \in Delays : Play(d)
    \/ \E t \in timers : PlayFunction(t)
    \/ \E d \in Delays : Pause(d)
    \/ \E t \in timers : PauseFunction(t)
    \/ \E d \in StopDelays : Stop(d)
    \/ \E t \in timers : StopFunction(t)
    \/ \E n \in Tempos : ChangeTempo(n)
    \/ AdvanceClock

Spec == Init /\ [][Next]_vars

\* The tempos a client may pass to changeTempo, whatever their sign.
AnyTempos == {Num(900), Num(-900)}

\* A sequencer that is played and whose client passes any number to
\* changeTempo.
TempoNext ==
    \/ \E t \in timers : Tick(t)
    \/ \E d \in Delays : Play(d)
    \/ \E t \in timers : PlayFunction(t)
    \/ \E n \in AnyTempos : ChangeTempo(n)
    \/ AdvanceClock

TempoSpec == Init /\ [][TempoNext]_vars

\* The tempos of a client that slows the sequence down.
SlowTempos == {Num(300)}

\* The delays (seconds from now) that client passes to pause.
PauseDelays == {Num(0), Rat(1, 5)}

\* A new sequencer whose client makes one call more than MaxCalls.
ResumeInit ==
    /\ currentTime = Num(0)
    /\ \E tempo \in InitialTempos :
          timeline = BeatTimelineInit(tempo, Undefined, currentTime)
    /\ playing = FALSE
    /\ beatNumber = Num(0)
    /\ resumeBeat = Undefined
    /\ intervalID = 0
    /\ timers = {}
    /\ nextTimer = 1
    /\ notes \in NoteSequences
    /\ output = <<>>
    /\ lastOp = Op("init")
    /\ stopRan = FALSE
    /\ tempoChange = [set |-> FALSE, pivotBeat |-> Num(0), pivotTime |-> Num(0),
                      beatsPerMinute |-> Num(0), wrapped |-> FALSE, replayed |-> FALSE]
    /\ calls = 0
    /\ callLimit = MaxCalls + 1
    /\ pool = notes
    /\ listeners = <<>>
    /\ notified = <<>>
    /\ seqCall = NoCall
    /\ probe = NoProbe
    /\ LibraryInit

\* A sequencer that is played, paused at once or later, slowed down and
\* played again.
ResumeNext ==
    \/ \E t \in timers : Tick(t)
    \/ Play(Num(0))
    \/ \E t \in timers : PlayFunction(t)
    \/ \E d \in PauseDelays : Pause(d)
    \/ \E t \in timers : PauseFunction(t)
    \/ \E n \in SlowTempos : ChangeTempo(n)
    \/ AdvanceClock

ResumeSpec == ResumeInit /\ [][ResumeNext]_vars

(***************************************************************************)
(* The note sequence and its clients                                       *)
(***************************************************************************)
\* The stored notes number at most MaxNotes.
MaxNotes == 4

\* At most MaxListeners listeners are registered.
MaxListeners == 2

\* The note objects the clients create; the first two carry equal values
\* and the third has length 0.
ClientNotes == <<Note(1, 2, 1, 0), Note(2, 2, 1, 0), Note(3, 1, 0, 4)>>

\* The beats a note is moved to, and the pitches it is given.
Beats == {0, 2}

Pitches == {7}

\* The beat ranges asked of getNotes, as <<startBeat, endBeat>>.
Ranges == {<<0, 2>>, <<2, 2>>, <<2, 3>>}

\* The sequencer's state other than its timeline and its note sequence.
sequencerVars == <<currentTime, playing, beatNumber, resumeBeat,
                   intervalID, timers, nextTimer, output, calls, lastOp,
                   stopRan, tempoChange, callLimit>>

\* A sequencer that was constructed and never used.
SequencerInit ==
    /\ currentTime = Num(0)
    /\ playing = FALSE
    /\ beatNumber = Num(0)
    /\ resumeBeat = Undefined
    /\ intervalID = 0
    /\ timers = {}
    /\ nextTimer = 1
    /\ output = <<>>
    /\ lastOp = Op("init")
    /\ stopRan = FALSE
    /\ tempoChange = [set |-> FALSE, pivotBeat |-> Num(0), pivotTime |-> Num(0),
                      beatsPerMinute |-> Num(0), wrapped |-> FALSE, replayed |-> FALSE]
    /\ calls = 0
    /\ callLimit = MaxCalls

SeqCall(op, id, present, a, b, returned) ==
    [op |-> op, note |-> id, present |-> present, a |-> a, b |-> b,
     returned |-> returned]

SeqInit ==
    /\ SequencerInit
    /\ timeline = BeatTimelineInit(Num(120), Undefined, currentTime)
    /\ notes = <<>>
    /\ pool = ClientNotes
    /\ listeners = <<>>
    /\ notified = <<>>
    /\ seqCall = NoCall
    /\ probe = NoProbe
    /\ LibraryInit

AddNote(id) ==
    /\ Len(notes) < MaxNotes
    /\ LET r == addNote(notes, listeners, pool[id])
       IN  /\ notes' = r.notes
           /\ notified' = r.notified
    /\ seqCall' = SeqCall("addNote", id, indexOf(notes, pool[id]) # -1, 0, 0, <<>>)
    /\ UNCHANGED <<pool, listeners, probe, timeline, sequencerVars, libraryVars>>

RemoveNote(id) ==
    /\ LET r == removeNote(notes, listeners, pool[id])
       IN  /\ notes' = r.notes
           /\ notified' = r.notified
    /\ seqCall' = SeqCall("removeNote", id, indexOf(notes, pool[id]) # -1, 0, 0, <<>>)
    /\ UNCHANGED <<pool, listeners, probe, timeline, sequencerVars, libraryVars>>

MoveNote(id, newStart, newPitch) ==
    /\ indexOf(notes, pool[id]) = -1 => Len(notes) < MaxNotes
    /\ LET r == moveNote(notes, listeners, pool[id], newStart, newPitch)
       IN  /\ notes' = r.notes
           /\ notified' = r.notified
           /\ pool' = [pool EXCEPT ![id] = r.note]
    /\ seqCall' = SeqCall("moveNote", id, indexOf(notes, pool[id]) # -1,
                          newStart, newPitch, <<>>)
    /\ UNCHANGED <<listeners, probe, timeline, sequencerVars, libraryVars>>

GetNotes(startBeat, endBeat) ==
    /\ seqCall' = SeqCall("getNotes", 0, FALSE, startBeat, endBeat,
                          getNotes(notes, Num(startBeat), Num(endBeat)))
    /\ notified' = <<>>
    /\ UNCHANGED <<notes, pool, listeners, probe, timeline, sequencerVars, libraryVars>>

\* Each registered listener is a new object, known by its number.
AddChangeListener ==
    /\ Len(listeners) < MaxListeners
    /\ listeners' = Append(listeners, Len(listeners) + 1)
    /\ notified' = <<>>
    /\ seqCall' = SeqCall("addChangeListener", 0, FALSE, 0, 0, <<>>)
    /\ UNCHANGED <<notes, pool, probe, timeline, sequencerVars, libraryVars>>

SeqNext ==
    \/ \E id \in DOMAIN pool : AddNote(id)
    \/ \E id \in DOMAIN pool : RemoveNote(id)
    \/ \E id \in DOMAIN pool, newStart \in Beats, newPitch \in Pitches :
          MoveNote(id, newStart, newPitch)
    \/ \E r \in Ranges : GetNotes(r[1], r[2])
    \/ AddChangeListener

SeqSpec == SeqInit /\ [][SeqNext]_vars

(***************************************************************************)
(* A sequence edited while it plays                                        *)
(***************************************************************************)
\* The note objects of the editor: one in each of the first two windows.
EditorNotes == <<Note(1, 1, 1, 0), Note(2, 7, 1, 4)>>

\* A new sequencer on an empty note sequence, and an editor holding notes.
EditInit ==
    /\ currentTime = Num(0)
    /\ playing = FALSE
    /\ beatNumber = Num(0)
    /\ resumeBeat = Undefined
    /\ intervalID = 0
    /\ timers = {}
    /\ nextTimer = 1
    /\ output = <<>>
    /\ lastOp = Op("init")
    /\ stopRan = FALSE
    /\ tempoChange = [set |-> FALSE, pivotBeat |-> Num(0), pivotTime |-> Num(0),
                      beatsPerMinute |-> Num(0), wrapped |-> FALSE, replayed |-> FALSE]
    /\ calls = 0
    /\ callLimit = 1
    /\ \E tempo \in InitialTempos :
          timeline = BeatTimelineInit(tempo, Undefined, currentTime)
    /\ notes = <<>>
    /\ pool = EditorNotes
    /\ listeners = <<>>
    /\ notified = <<>>
    /\ seqCall = NoCall
    /\ probe = NoProbe
    /\ LibraryInit

\* One play call, and the editor adding and removing notes between the
\* ticks.
EditNext ==
    \/ \E t \in timers : Tick(t)
    \/ Play(Num(0))
    \/ \E t \in timers : PlayFunction(t)
    \/ AdvanceClock
    \/ \E id \in 1..Len(pool) : AddNote(id)
    \/ \E id \in 1..Len(pool) : RemoveNote(id)

EditSpec == EditInit /\ [][EditNext]_vars

(***************************************************************************)
(* A timeline value and its callers                                        *)
(***************************************************************************)
\* A timeline is shifted at most MaxShifts times.
MaxShifts == 2

\* The timelines constructed: beats per minute, reference beat and time.
TimelineTempos == {Num(60), Num(90), Num(144)}

ReferenceBeats == {Num(0), Rat(1, 2), Num(3)}

ReferenceTimes == {Num(0), Rat(1, 4)}

\* The beats and the times asked of a timeline, and the beat delays.
ProbeBeats == {Num(-1), Num(0), Rat(1, 3), Num(8)}

ProbeTimes == {Num(0), Rat(1, 10), Num(5)}

BeatDelays == {Num(-1), Num(0), Rat(1, 2), Num(8)}

\* The anchors given to copyStartingAt, and the tempo changes.
StartTimes == {Rat(3, 2)}

StartBeats == {Undefined, Num(2)}

NewTempos == {Num(40), Num(120)}

PivotBeats == {Num(0), Rat(5, 2)}

TimelineInit ==
    /\ SequencerInit
    /\ \E beatsPerMinute \in TimelineTempos, referenceBeat \in ReferenceBeats,
          referenceTime \in ReferenceTimes :
          timeline = BeatTimelineInit(beatsPerMinute, referenceBeat, referenceTime)
    /\ notes = <<>>
    /\ pool = <<>>
    /\ listeners = <<>>
    /\ notified = <<>>
    /\ seqCall = NoCall
    /\ probe = [NoProbe EXCEPT !.receiver = timeline]
    /\ LibraryInit

TimeFor(beatNumber_) ==
    /\ probe' = [probe EXCEPT !.op = "timeFor", !.arg = beatNumber_,
                              !.value = timeFor(timeline, beatNumber_),
                              !.receiver = timeline]
    /\ UNCHANGED <<timeline, notes, seqVars, sequencerVars, libraryVars>>

BeatFor(time) ==
    /\ probe' = [probe EXCEPT !.op = "beatFor", !.arg = time,
                              !.value = beatFor(timeline, time),
                              !.receiver = timeline]
    /\ UNCHANGED <<timeline, notes, seqVars, sequencerVars, libraryVars>>

\* copyTimeShifted({beatDelay}); the caller keeps the copy.
CopyTimeShifted(beatDelay) ==
    /\ probe.shifts < MaxShifts
    /\ LET call == createTimeline(timeline,
                                   copyTimeShifted(timeline, beatDelay, Num(0)))
       IN  /\ timeline' = call.returned
           /\ probe' = [op |-> "copyTimeShifted", arg |-> beatDelay,
                        value |-> Num(0), shifts |-> probe.shifts + 1,
                        receiver |-> call.receiver]
    /\ UNCHANGED <<notes, seqVars, sequencerVars, libraryVars>>

\* copyStartingAt({referenceTime, referenceBeat}); the caller keeps the copy.
CopyStartingAt(referenceTime, referenceBeat) ==
    /\ probe.shifts < MaxShifts
    /\ LET call == createTimeline(timeline,
                                   copyStartingAt(timeline, referenceTime,
                                                  referenceBeat))
       IN  /\ timeline' = call.returned
           /\ probe' = [op |-> "copyStartingAt", arg |-> referenceTime,
                        value |-> referenceBeat, shifts |-> probe.shifts + 1,
                        receiver |-> call.receiver]
    /\ UNCHANGED <<notes, seqVars, sequencerVars, libraryVars>>

\* withTempo(newTempo, fromBeat); the caller keeps the copy.
WithTempo(newTempo, fromBeat) ==
    /\ probe.shifts < MaxShifts
    /\ LET call == createTimeline(timeline,
                                   withTempo(timeline, newTempo, fromBeat))
       IN  /\ timeline' = call.returned
           /\ probe' = [op |-> "withTempo", arg |-> newTempo,
                        value |-> fromBeat, shifts |-> probe.shifts + 1,
                        receiver |-> call.receiver]
    /\ UNCHANGED <<notes, seqVars, sequencerVars, libraryVars>>

TimelineNext ==
    \/ \E b \in ProbeBeats : TimeFor(b)
    \/ \E t \in ProbeTimes : BeatFor(t)
    \/ \E d \in BeatDelays : CopyTimeShifted(d)
    \/ \E t \in StartTimes, b \in StartBeats : CopyStartingAt(t, b)
    \/ \E n \in NewTempos, f \in PivotBeats : WithTempo(n, f)

TimelineSpec == TimelineInit /\ [][TimelineNext]_vars

(***************************************************************************)
(* A scale and its callers                                                 *)
(***************************************************************************)
\* The note numbers asked of a scale run from -MaxNoteNumber to
\* MaxNoteNumber.
MaxNoteNumber == 7

NoteNumbers == (-MaxNoteNumber)..MaxNoteNumber

\* The scales created: the notes of the scale and the octave offset.
ScaleNotes == {<<0, 2, 4, 7, 9>>, <<0, 2, 4, 5, 7, 9, 11>>, <<0, 3, 7>>}

Octaves == {-1, 0, 1}

\* A sequencer that was constructed and never used, with an empty note
\* sequence.
IdleInit ==
    /\ SequencerInit
    /\ timeline = BeatTimelineInit(Num(120), Undefined, currentTime)
    /\ notes = <<>>
    /\ pool = <<>>
    /\ listeners = <<>>
    /\ notified = <<>>
    /\ seqCall = NoCall
    /\ probe = NoProbe

\* createOctaveScale({scaleNotes, octave}) with the default tuning system.
ScaleInit ==
    /\ IdleInit
    /\ \E scaleNotes \in ScaleNotes, octave \in Octaves :
          scale = OctaveScale(scaleNotes, octave)
    /\ frequency = NoFrequency
    /\ tree = <<>>
    /\ heapLog = NoHeapLog
    /\ DisplayIdle

FrequencyOf(noteNumber) ==
    /\ frequency' = [op |-> "frequencyOf", noteNumber |-> noteNumber,
                     value |-> frequencyOf(scale, noteNumber)]
    /\ UNCHANGED <<scale, tree, heapLog, timeline, notes, seqVars, probe,
                   sequencerVars, displayVars>>

ScaleNext == \E noteNumber \in NoteNumbers : FrequencyOf(noteNumber)

ScaleSpec == ScaleInit /\ [][ScaleNext]_vars

(***************************************************************************)
(* A heap and its callers                                                  *)
(***************************************************************************)
\* The heap holds at most MaxHeapSize elements and receives at most
\* MaxHeapCalls calls.
MaxHeapSize == 3

MaxHeapCalls == 6

\* The elements added to the heap.
Elements == {0, 1, 2}

\* createTree() on a new heap.
HeapInit ==
    /\ IdleInit
    /\ LibraryInit

HeapAdd(element) ==
    /\ Len(tree) < MaxHeapSize
    /\ heapLog.adds + heapLog.removes < MaxHeapCalls
    /\ tree' = add(tree, element)
    /\ heapLog' = [phase   |-> IF isEmpty(tree) \/ heapLog.phase = "adding"
                               THEN "adding" ELSE "mixed",
                   removed |-> <<>>,
                   adds    |-> heapLog.adds + 1,
                   removes |-> heapLog.removes]
    /\ UNCHANGED <<scale, frequency, timeline, notes, seqVars, probe,
                   sequencerVars, displayVars>>

\* removeMin(), called while isEmpty() is false.
HeapRemoveMin ==
    /\ ~isEmpty(tree)
    /\ heapLog.adds + heapLog.removes < MaxHeapCalls
    /\ LET r == removeMin(tree)
       IN  /\ tree' = r.tree
           /\ heapLog' = [phase   |-> IF heapLog.phase = "adding"
                                      THEN "removing" ELSE heapLog.phase,
                          removed |-> Append(heapLog.removed, r.minElement),
                          adds    |-> heapLog.adds,
                          removes |-> heapLog.removes + 1]
    /\ UNCHANGED <<scale, frequency, timeline, notes, seqVars, probe,
                   sequencerVars, displayVars>>

HeapNext ==
    \/ \E element \in Elements : HeapAdd(element)
    \/ HeapRemoveMin

HeapSpec == HeapInit /\ [][HeapNext]_vars

(***************************************************************************)
(* Properties                                                              *)
(***************************************************************************)
\* The end of the window a tick taken in the current state covers.
windowEndBeat == beatFor(timeline, Add(currentTime, lookahead))

\* The tones a step appended to the output.
NewTones == SubSeq(output', Len(output) + 1, Len(output'))

\* C1: a tick submits exactly one tone for every note that
\* getNotes({startBeat: beatNumber, endBeat: windowEndBeat}) returns, in that
\* order, and no other tone; each tone starts at timeFor(note.start) and
\* stops at timeFor(note.start + note.length) on the timeline in effect when
\* the tick starts, so it lasts note.length * 60 / beatsPerMinute seconds.
C1_TickSubmitsWindow ==
    [][lastOp'.op = "tick" =>
        LET found == getNotes(notes, beatNumber, windowEndBeat)
        IN  /\ SubSeq(output', 1, Len(output)) = output
            /\ Len(NewTones) = Len(found)
            /\ \A i \in 1..Len(found) :
                  /\ NewTones[i].note = found[i]
                  /\ NewTones[i].start = timeFor(timeline, Num(found[i].start))
                  /\ NewTones[i].stop =
                        timeFor(timeline, Num(found[i].start + found[i].length))
                  /\ Sub(NewTones[i].stop, NewTones[i].start) =
                        Div(Mul(Num(found[i].length), Num(60)),
                            timeline.beatsPerMinute)]_vars

\* A tick that wrapped the loop and submitted tones while doing so.
C1_Witness ==
    /\ lastOp.op = "tick"
    /\ lastOp.tones >= 1
    /\ beatNumber = Num(0)
    /\ Lt(Num(0), windowEndBeat)

\* C2 as stated: a tick whose window ends at or after loopLength leaves the
\* cursor at windowEndBeat - loopLength and the timeline shifted by
\* loopLength; any other tick leaves the cursor at windowEndBeat and the
\* timeline unchanged.
C2_WrapSubtractsLoopLength ==
    [][lastOp'.op = "tick" =>
        IF Geq(windowEndBeat, Num(loopLength))
        THEN /\ beatNumber' = Sub(windowEndBeat, Num(loopLength))
             /\ timeline' = copyTimeShifted(timeline, Num(loopLength), Num(0))
        ELSE /\ beatNumber' = windowEndBeat
             /\ timeline' = timeline]_vars

\* C2 amended: a tick whose window ends at or after loopLength leaves the
\* cursor at 0 and the timeline shifted by loopLength; any other tick leaves
\* the cursor at windowEndBeat and the timeline unchanged.
C2_WrapResetsCursor ==
    [][lastOp'.op = "tick" =>
        IF Geq(windowEndBeat, Num(loopLength))
        THEN /\ beatNumber' = Num(0)
             /\ timeline' = copyTimeShifted(timeline, Num(loopLength), Num(0))
        ELSE /\ beatNumber' = windowEndBeat
             /\ timeline' = timeline]_vars

\* A tick whose window ended strictly after loopLength: the cursor is 0 and
\* the next window, on the shifted timeline, ends after beat 0.
C2_Witness ==
    /\ lastOp.op = "tick"
    /\ playing = TRUE
    /\ beatNumber = Num(0)
    /\ Lt(Num(0), windowEndBeat)
    /\ Lt(Num(0), timeline.referenceTime)

\* this.resumeBeat as copyStartingAt reads it: undefined selects beat 0.
ResumeBeatOrZero == IF resumeBeat = Undefined THEN Num(0) ELSE resumeBeat

Timeouts == {t \in timers : t.kind # "interval"}

\* C3: at the instant a play's deferred action has started the loop, the
\* timeline maps resumeBeat (0 when it was never captured) to the audio
\* clock's current time.
C3_LoopStartsAtAnchor ==
    lastOp.op = "playFunction" =>
        timeFor(timeline, ResumeBeatOrZero) = currentTime

\* C4: at the instant a pause's deferred action has stopped the loop,
\* resumeBeat is the beat of the audio clock's current time.
C4_ResumeBeatCapturedAtClear ==
    lastOp.op = "pauseFunction" =>
        resumeBeat = beatFor(timeline, currentTime)

\* C5: a play called while not playing installs a timeline whose reference
\* beat is the resumeBeat the last pause captured and whose reference time is
\* the audio time of that call, at the tempo in force.
C5_ResumeFromPausedBeat ==
    [][lastOp'.op = "play" /\ playing = FALSE =>
        /\ timeline'.referenceBeat = ResumeBeatOrZero
        /\ timeline'.referenceTime = currentTime
        /\ timeline'.beatsPerMinute = timeline.beatsPerMinute]_vars

\* The second play of play(0), pause(0), play(0): playback is paused, every
\* deferred action but this play's has run, and the timeline is anchored at
\* the captured beat, which is not beat 0.
C5_Witness ==
    /\ lastOp.op = "play"
    /\ playing = FALSE
    /\ calls = 3
    /\ resumeBeat # Undefined
    /\ Lt(Num(0), resumeBeat)
    /\ timeline.referenceBeat = resumeBeat
    /\ timeline.referenceTime = currentTime
    /\ \A t \in timers : t.kind = "play" /\ t.due = currentTime
    /\ Cardinality(timers) = 1

\* C6: once stop's deferred action has run with no deferred play outstanding,
\* the pause it triggers and every other timeout have run, and play has not
\* been called since, the scheduler is reset.
C6_StopResets ==
    stopRan /\ Timeouts = {} =>
        /\ playing = FALSE
        /\ beatNumber = Num(0)
        /\ resumeBeat = Num(0)

\* The time the last changeTempo call gives a beat at or after its cursor.
RetempoedTimeFor(beat) ==
    Add(tempoChange.pivotTime,
        Div(Mul(Sub(beat, tempoChange.pivotBeat), Num(60)),
            tempoChange.beatsPerMinute))

\* What changeTempo itself does: the new timeline has the new tempo and maps
\* the cursor to the same time as the old one; the tones already submitted,
\* the cursor, resumeBeat and the playing flag are unchanged.
ChangeTempoStep ==
    lastOp'.op = "changeTempo" =>
        /\ timeline'.beatsPerMinute = tempoChange'.beatsPerMinute
        /\ timeFor(timeline', beatNumber) = timeFor(timeline, beatNumber)
        /\ output' = output
        /\ UNCHANGED <<beatNumber, resumeBeat, playing>>

\* The tones of a tick for notes at or after the cursor of the last
\* changeTempo call are timed from that cursor at the new tempo.
RetempoedTick ==
    \A i \in 1..Len(NewTones) :
        Geq(Num(NewTones[i].note.start), tempoChange.pivotBeat) =>
            NewTones[i].start = RetempoedTimeFor(Num(NewTones[i].note.start))

\* C7 as stated: changeTempo is not retroactive, and every tone submitted
\* after it in the same loop pass for a note at or after the cursor is timed
\* as oldTimeline.timeFor(cursor) + (start - cursor) * 60 / newBpm.
C7_TempoFromCursor ==
    [][/\ ChangeTempoStep
       /\ (/\ lastOp'.op = "tick"
           /\ tempoChange.set
           /\ ~tempoChange.wrapped) => RetempoedTick]_vars

\* C7 amended: the same, for the tones submitted before a later play call
\* re-anchors the timeline.
C7_TempoFromCursorUntilPlay ==
    [][/\ ChangeTempoStep
       /\ (/\ lastOp'.op = "tick"
           /\ tempoChange.set
           /\ ~tempoChange.wrapped
           /\ ~tempoChange.replayed) => RetempoedTick]_vars

\* A tick after a tempo change in the middle of a pass submitted a tone for a
\* note at or after the cursor of the change.
C7_Witness ==
    /\ lastOp.op = "tick"
    /\ lastOp.tones >= 1
    /\ tempoChange.set
    /\ ~tempoChange.wrapped
    /\ ~tempoChange.replayed
    /\ Lt(Num(0), tempoChange.pivotBeat)
    /\ Geq(Num(output[Len(output)].note.start), tempoChange.pivotBeat)
    /\ timeline.beatsPerMinute = Num(900)

\* C8: play called while playing changes nothing and registers no timer.
C8_PlayWhilePlayingIsNoOp ==
    [][lastOp'.op = "play" /\ playing = TRUE =>
        UNCHANGED <<timeline, beatNumber, resumeBeat, playing, timers,
                    nextTimer, intervalID, output>>]_vars

\* play was called during playback, with the loop registered.
C8_Witness ==
    /\ lastOp.op = "play"
    /\ playing = TRUE
    /\ \E t \in timers : t.kind = "interval" /\ t.id = intervalID

\* C9: pause called while not playing changes nothing and registers no timer.
C9_PauseWhileNotPlayingIsNoOp ==
    [][lastOp'.op = "pause" /\ playing = FALSE =>
        UNCHANGED <<timeline, beatNumber, resumeBeat, playing, timers,
                    nextTimer, intervalID, output>>]_vars

\* pause was called on a paused sequencer whose position is not beat 0.
C9_Witness ==
    /\ lastOp.op = "pause"
    /\ playing = FALSE
    /\ resumeBeat # Undefined
    /\ Lt(Num(0), resumeBeat)

\* C10: a scheduling tick runs only while the sequencer is playing.
C10_TickOnlyWhilePlaying ==
    lastOp.op = "tick" => playing = TRUE

(***************************************************************************)
(* Properties of the note sequence                                         *)
(***************************************************************************)
Sorted(ns) == \A i \in 1..(Len(ns) - 1) : ns[i].start <= ns[i + 1].start

\* The stored references to one note object.
Occurrences(ns, id) == {i \in 1..Len(ns) : ns[i].id = id}

\* The stored notes that start in [startBeat, endBeat), in container order.
StartingIn(ns, startBeat, endBeat) ==
    SelectSeq(ns, LAMBDA n : startBeat <= n.start /\ n.start < endBeat)

\* C11: after any sequence of addNote, removeNote and moveNote calls, with
\* any note passed to any call, the stored notes are sorted non-decreasingly
\* by start.
C11_StoredNotesSorted == Sorted(notes)

RECURSIVE IsSubsequence(_, _)
\* s is t with some entries left out.
IsSubsequence(s, t) ==
    IF s = <<>> THEN TRUE
    ELSE IF t = <<>> THEN FALSE
    ELSE IF Head(s) = Head(t) THEN IsSubsequence(Tail(s), Tail(t))
    ELSE IsSubsequence(s, Tail(t))

\* C12: getNotes({startBeat, endBeat}) returns exactly the stored notes with
\* startBeat <= start < endBeat, in container order and no stored entry
\* twice, and neither modifies the sequence nor notifies a listener.
C12_GetNotesReturnsRange ==
    [][seqCall'.op = "getNotes" =>
          LET returned == seqCall'.returned
              inRange(n) == seqCall'.a <= n.start /\ n.start < seqCall'.b
          IN  /\ \A i \in 1..Len(returned) : inRange(returned[i])
              /\ \A j \in 1..Len(notes) :
                    inRange(notes[j]) =>
                       \E i \in 1..Len(returned) : returned[i].id = notes[j].id
              /\ IsSubsequence(returned, notes)
              /\ notes' = notes
              /\ pool' = pool
              /\ listeners' = listeners
              /\ notified' = <<>>]_vars

\* The stored notes other than the references to one note object, in order.
Others(ns, id) == SelectSeq(ns, LAMBDA n : n.id # id)

\* C13: addNote inserts the note immediately before the first stored note
\* whose start is >= its start, at the end if there is none, and the notes
\* stored before keep their order; so a note added at start 2 to a sequence
\* holding one note of start 2 comes first in getNotes({2, 3}).
C13_AddNoteBeforeTies ==
    [][seqCall'.op = "addNote" =>
          LET note == pool[seqCall'.note]
          IN  /\ \E p \in 0..Len(notes) :
                    /\ notes' = spliceIn(notes, p, note)
                    /\ \A i \in 1..p : notes[i].start < note.start
                    /\ p < Len(notes) => notes[p + 1].start >= note.start
              /\ (/\ Len(notes) = 1
                  /\ notes[1].start = 2
                  /\ note.start = 2
                  /\ note.id # notes[1].id)
                    => getNotes(notes', Num(2), Num(3)) = <<note, notes[1]>>]_vars

\* A note was added to a sequence whose only note has the same start.
C13_Witness ==
    /\ seqCall.op = "addNote"
    /\ Len(notes) = 2
    /\ notes[1].id = seqCall.note
    /\ notes[1].id # notes[2].id
    /\ notes[1].start = 2
    /\ notes[2].start = 2

\* C14: moveNote of a stored note keeps the same notes stored, gives the
\* note the new start and pitch and leaves its length alone, puts it
\* immediately before the first other note whose start is >= the new start,
\* and keeps the order of the other notes; with no such other note, a note
\* that was stored once ends up last.
C14_MoveNoteReinserts ==
    [][seqCall'.op = "moveNote" /\ seqCall'.present =>
          LET id    == seqCall'.note
              moved == pool'[id]
              later == {j \in 1..Len(notes') :
                           notes'[j].id # id /\ notes'[j].start >= seqCall'.a}
              first == CHOOSE j \in later : \A k \in later : j <= k
          IN  /\ moved.start = seqCall'.a
              /\ moved.number = seqCall'.b
              /\ moved.length = pool[id].length
              /\ Len(notes') = Len(notes)
              /\ Cardinality(Occurrences(notes', id)) = Cardinality(Occurrences(notes, id))
              /\ \A i \in Occurrences(notes', id) : notes'[i] = moved
              /\ Others(notes', id) = Others(notes, id)
              /\ IF later # {}
                 THEN first > 1 /\ notes'[first - 1].id = id
                 ELSE Cardinality(Occurrences(notes, id)) = 1 =>
                         notes'[Len(notes')].id = id]_vars

\* The notify() calls the last operation made on one listener.
NotifiedOf(l) == {i \in 1..Len(notified) : notified[i].listener = l}

\* C15: one moveNote call invokes each registered listener's notify()
\* exactly once, and never while the moved note is missing from the
\* sequence.
C15_MoveNotifiesOnceAtEnd ==
    seqCall.op = "moveNote" =>
       \A k \in 1..Len(listeners) :
          /\ Cardinality(NotifiedOf(listeners[k])) = 1
          /\ \A i \in NotifiedOf(listeners[k]) :
                Occurrences(notified[i].seen, seqCall.note) # {}

\* C16: removeNote removes the given note object when it is stored: one
\* entry less, the others in their order, a different note of equal values
\* left alone; when it is not stored the stored notes are unchanged; either
\* way every listener is notified once.
C16_RemoveNoteByReference ==
    [][seqCall'.op = "removeNote" =>
          LET id     == seqCall'.note
              stored == Occurrences(notes, id)
          IN  /\ IF stored # {}
                 THEN /\ Len(notes') = Len(notes) - 1
                      /\ \E i \in stored :
                            notes' = SubSeq(notes, 1, i - 1)
                                        \o SubSeq(notes, i + 1, Len(notes))
                      /\ Others(notes', id) = Others(notes, id)
                 ELSE notes' = notes
              /\ pool' = pool
              /\ listeners' = listeners
              /\ Len(notified') = Len(listeners)
              /\ \A k \in 1..Len(listeners) :
                    notified'[k].listener = listeners[k]]_vars

\* A stored note was removed while a different note of equal values stays
\* stored, and a listener was notified.
C16_Witness ==
    /\ seqCall.op = "removeNote"
    /\ seqCall.present
    /\ notified # <<>>
    /\ \E i \in 1..Len(notes) :
          /\ notes[i].id # seqCall.note
          /\ notes[i].start = pool[seqCall.note].start
          /\ notes[i].length = pool[seqCall.note].length
          /\ notes[i].number = pool[seqCall.note].number

\* C17: moveNote with a note that is not stored leaves the stored notes,
\* their members and their order, as they were.
C17_MoveAbsentNoteIsNoOp ==
    [][seqCall'.op = "moveNote" /\ ~seqCall'.present => notes' = notes]_vars

\* C18: every addNote, removeNote and moveNote call notifies every
\* registered listener, in registration order, after the mutation is applied
\* (the listener finds the stored notes as the call leaves them); getNotes
\* and addChangeListener notify nobody.
C18_NotifiedAfterMutation ==
    /\ seqCall.op \in {"addNote", "removeNote", "moveNote"} =>
          /\ Len(notified) = Len(listeners)
          /\ \A k \in 1..Len(notified) :
                /\ notified[k].listener = listeners[k]
                /\ notified[k].seen = notes
    /\ seqCall.op \in {"getNotes", "addChangeListener"} => notified = <<>>

(***************************************************************************)
(* Properties of the timeline                                              *)
(***************************************************************************)
\* C19 as stated: the shifted timeline maps the beat referenceBeat + d to
\* the same instant as the timeline it was copied from.
C19_ShiftKeepsAnchorInstant ==
    [][probe'.op = "copyTimeShifted" =>
          LET anchor == Add(timeline.referenceBeat, probe'.arg)
          IN  timeFor(timeline', anchor) = timeFor(timeline, anchor)]_vars

\* C19, amended: the shifted timeline maps the reference beat to the instant
\* the original gives to referenceBeat + d, and every beat b to the instant
\* the original gives to b + d; the reference beat and the tempo are kept.
C19_ShiftDelaysByBeats ==
    [][probe'.op = "copyTimeShifted" =>
          /\ timeFor(timeline', timeline.referenceBeat)
                = timeFor(timeline, Add(timeline.referenceBeat, probe'.arg))
          /\ \A b \in ProbeBeats :
                timeFor(timeline', b) = timeFor(timeline, Add(b, probe'.arg))
          /\ timeline'.referenceBeat = timeline.referenceBeat
          /\ timeline'.beatsPerMinute = timeline.beatsPerMinute]_vars

\* A timeline whose reference beat is not 0 was shifted by a delay other
\* than 0.
C19_Witness ==
    /\ probe.op = "copyTimeShifted"
    /\ probe.arg # Num(0)
    /\ timeline.referenceBeat # Num(0)

\* C20: on a timeline with beatsPerMinute > 0, beatFor(timeFor(b)) = b for
\* every beat b and timeFor(beatFor(t)) = t for every time t.
C20_TimeForBeatForInverse ==
    /\ Lt(Num(0), timeline.beatsPerMinute)
    /\ probe.op = "timeFor" => beatFor(timeline, probe.value) = probe.arg
    /\ probe.op = "beatFor" => timeFor(timeline, probe.value) = probe.arg

\* A beat off the reference was mapped to a time that is not a whole number
\* of seconds, on a timeline that was shifted.
C20_Witness ==
    /\ probe.op = "timeFor"
    /\ probe.arg # timeline.referenceBeat
    /\ probe.value[2] # 1
    /\ probe.shifts > 0
    /\ timeline.referenceBeat # Num(0)

\* C21: withTempo(n, f) gives a timeline with beatsPerMinute n and
\* referenceBeat f that places beat f at the time the receiver placed it,
\* that time being worked out with the receiver's tempo.
C21_WithTempoContinuousAtPivot ==
    [][probe'.op = "withTempo" /\ probe' # probe /\ Lt(Num(0), probe'.arg) =>
          LET n == probe'.arg
              f == probe'.value
          IN  /\ timeline'.beatsPerMinute = n
              /\ timeline'.referenceBeat = f
              /\ timeFor(timeline', f) = timeFor(timeline, f)
              /\ timeline'.referenceTime =
                     Add(timeline.referenceTime,
                         Div(Mul(Sub(f, timeline.referenceBeat), Num(60)),
                             timeline.beatsPerMinute))]_vars

\* A tempo change at a beat off the reference beat, to a different tempo.
C21_Witness ==
    /\ probe.op = "withTempo"
    /\ probe.value # probe.receiver.referenceBeat
    /\ probe.arg # probe.receiver.beatsPerMinute
    /\ timeline.referenceBeat = probe.value
    /\ timeFor(timeline, probe.value) = timeFor(probe.receiver, probe.value)

C23_TonesStartInFuture ==
    [][/\ lastOp'.op = "tick"
       /\ calls = 1
       /\ beatNumber = Num(0)
       /\ ~tempoChange.wrapped
       /\ Geq(Add(timeline.referenceTime, lookahead), currentTime)
       => \A i \in 1..Len(NewTones) : Geq(NewTones[i].start, currentTime)]_vars

\* C24: a new sequencer is not playing, is at beat 0, has no interval timer
\* and has the tempo it was created with; a play call made before any pause
\* or stop anchors beat 0 of the timeline at the audio clock's current time
\* and keeps the tempo.
C24_StartsStopped ==
    [][/\ lastOp.op = "init" =>
             /\ playing = FALSE
             /\ beatNumber = Num(0)
             /\ intervalID = 0
             /\ timers = {}
             /\ timeline.beatsPerMinute \in InitialTempos
             /\ ResumeBeatOrZero = Num(0)
       /\ lastOp'.op = "play" /\ calls' = calls + 1 /\ resumeBeat = Undefined =>
             /\ timeline'.referenceBeat = Num(0)
             /\ timeFor(timeline', Num(0)) = currentTime
             /\ timeline'.beatsPerMinute = timeline.beatsPerMinute
             /\ playing' = FALSE]_vars

\* The first play call, made after the audio clock has advanced.
C24_Witness ==
    /\ lastOp.op = "play"
    /\ calls = 1
    /\ resumeBeat = Undefined
    /\ Lt(Num(0), currentTime)
    /\ timeline.referenceBeat = Num(0)
    /\ timeline.referenceTime = currentTime
    /\ timeline.beatsPerMinute \in InitialTempos

\* C25: getNotes with startBeat = endBeat returns no note, whatever the
\* beat and whatever the sequence holds.
C25_ZeroWidthRangeIsEmpty ==
    /\ \A s \in 0..3 : getNotes(notes, Num(s), Num(s)) = <<>>
    /\ seqCall.op = "getNotes" /\ seqCall.a = seqCall.b =>
           seqCall.returned = <<>>

\* A zero-width range asked at a beat where a stored note starts.
C25_Witness ==
    /\ seqCall.op = "getNotes"
    /\ seqCall.a = seqCall.b
    /\ \E i \in 1..Len(notes) : notes[i].start = seqCall.a
    /\ seqCall.returned = <<>>

\* C27: addNote with a note whose length is <= 0 leaves the stored notes
\* as they were, and no stored note has a length <= 0.
C27_AddNoteRejectsEmptyNote ==
    [][/\ seqCall'.op = "addNote" /\ pool[seqCall'.note].length <= 0 =>
             notes' = notes
       /\ \A i \in 1..Len(notes') : notes'[i].length > 0]_vars

\* C26: changeTempo with a tempo <= 0 leaves the timeline as it was, and
\* the tempo of a sequencer created with a positive tempo stays above 0.
C26_NonPositiveTempoRejected ==
    [][/\ lastOp'.op = "changeTempo" /\ Geq(Num(0), tempoChange'.beatsPerMinute)
          => timeline' = timeline
       /\ Lt(Num(0), timeline.beatsPerMinute)
          => Lt(Num(0), timeline'.beatsPerMinute)]_vars

(***************************************************************************)
(* Properties of the scale and of the heap                                 *)
(***************************************************************************)
\* C28: for every integer note number, negative ones included, frequencyOf
\* reads the scale's notes at a valid index and yields the extended number
\* (trunc(n / len) + octave) * 12 + notes[n mod len], and the note number
\* n + len yields that number plus 12.
C28_FrequencyOfTotal ==
    frequency.op = "frequencyOf" =>
        LET n   == frequency.noteNumber
            len == Len(scale.notes)
        IN  /\ noteIndex(scale, n) \in 0..(len - 1)
            /\ ~frequency.value.semitones.nan
            /\ frequency.value.semitones.n =
                   (truncDivide(n, len) + scale.octave) * 12
                      + scale.notes[(n % len) + 1]
            /\ frequencyOf(scale, n + len).semitones =
                   Number(frequency.value.semitones.n + 12)

\* C29: the elements handed back by removeMin calls that follow the add
\* calls made on an empty heap are in non-descending order.
C29_RemoveMinAscending ==
    heapLog.phase = "removing" =>
        \A i \in 1..(Len(heapLog.removed) - 1) :
            heapLog.removed[i] <= heapLog.removed[i + 1]

\* C30: in a heap that is not empty, min() is the smallest element stored,
\* every parent is <= both its children, and size() is the number of add
\* calls minus the number of removeMin calls.
C30_MinIsSmallest ==
    ~isEmpty(tree) =>
        /\ \A i \in 1..Len(tree) : min(tree) <= tree[i]
        /\ \A i \in 1..(Len(tree) - 1) : tree[parentIndex(i) + 1] <= tree[i + 1]
        /\ size(tree) = heapLog.adds - heapLog.removes

(***************************************************************************)
(* Properties of the loop                                                  *)
(***************************************************************************)
\* No pause took effect, stop's deferred action never ran and the tempo was
\* never changed: playback was not interrupted.
Uninterrupted == resumeBeat = Undefined /\ ~tempoChange.set

\* The tones submitted for a note in the pass that is k passes before the
\* current one: the tones of that note that start where the current
\* timeline places the note's beat k loops earlier.
PassTones(note, k) ==
    {i \in 1..Len(output) :
        /\ output[i].note = note
        /\ output[i].start =
              timeFor(timeline, Sub(Num(note.start), Num(loopLength * k)))}

\* C31: during uninterrupted playback every note before the cursor was
\* submitted once in the current pass and no note at or after it was; in
\* every earlier pass every note was submitted once; and no other tone was
\* submitted.
C31_EachNoteOncePerPass ==
    Uninterrupted =>
        /\ \A i \in 1..Len(notes) :
              Cardinality(PassTones(notes[i], 0)) =
                 IF Lt(Num(notes[i].start), beatNumber) THEN 1 ELSE 0
        /\ \A k \in 1..MaxTime :
              \/ \A i \in 1..Len(notes) : Cardinality(PassTones(notes[i], k)) = 1
              \/ \A i \in 1..Len(notes) : Cardinality(PassTones(notes[i], k)) = 0
        /\ \A j \in 1..Len(output) :
              \E k \in 0..MaxTime : j \in PassTones(output[j].note, k)

\* The second pass has begun: every note was submitted in the first pass and
\* the notes before the cursor were submitted again.
C31_Witness ==
    /\ Uninterrupted
    /\ playing = TRUE
    /\ Lt(Num(0), beatNumber)
    /\ \A i \in 1..Len(notes) : Cardinality(PassTones(notes[i], 1)) = 1
    /\ \E i \in 1..Len(notes) : Cardinality(PassTones(notes[i], 0)) = 1
    /\ \E i \in 1..Len(notes) : Cardinality(PassTones(notes[i], 0)) = 0

\* The periodic scheduling intervals registered with the host.
Intervals == {t \in timers : t.kind = "interval"}

\* C32: as long as no pause was called and stop's deferred action never
\* ran, at most one scheduling interval is registered, and intervalID is
\* its handle.
C32_OneIntervalWithHandle ==
    resumeBeat = Undefined =>
        /\ Cardinality(Intervals) <= 1
        /\ \A t \in Intervals : t.id = intervalID

\* C33: the cursor is inside the loop, 0 <= beatNumber < loopLength.
C33_CursorInsideLoop ==
    /\ Geq(beatNumber, Num(0))
    /\ Lt(beatNumber, Num(loopLength))

\* C34: a resume position that was captured is inside the loop,
\* 0 <= resumeBeat < loopLength.
C34_ResumeBeatInsideLoop ==
    resumeBeat # Undefined =>
        /\ Geq(resumeBeat, Num(0))
        /\ Lt(resumeBeat, Num(loopLength))

\* The beats at which a wrap is examined: inside, at the ends of and outside
\* the loop.
WrapBeats == {Num(-1), Num(0), Rat(1, 3), Num(6), Num(loopLength), Num(11)}

\* C35: a tick that wraps the loop replaces the timeline by one with the
\* same tempo that places every beat b where the old one placed
\* b + loopLength, so beat 0 of the next pass falls where beat loopLength of
\* this pass fell.
C35_WrapPreservesTimeAxis ==
    [][lastOp'.op = "tick" /\ Geq(windowEndBeat, Num(loopLength)) =>
          /\ timeline'.beatsPerMinute = timeline.beatsPerMinute
          /\ \A b \in WrapBeats :
                timeFor(timeline', b) = timeFor(timeline, Add(b, Num(loopLength)))
          /\ \A b \in WrapBeats :
                beatFor(timeline', timeFor(timeline, Add(b, Num(loopLength)))) = b]_vars

\* A wrap of a timeline that a tempo change re-anchored off beat 0.
C35_Witness ==
    /\ lastOp.op = "tick"
    /\ tempoChange.set
    /\ tempoChange.wrapped
    /\ timeline.referenceBeat # Num(0)
    /\ beatNumber = Num(0)

\* C36: a tick that does not wrap the loop leaves the cursor at or after
\* where it was, and any other step that changes the cursor is the reset to
\* 0 by stop's deferred action. The ticks looked at are those of a
\* sequencer whose only interval is the one intervalID names and whose
\* resume position is not negative.
C36_CursorNeverMovesBack ==
    [][/\ /\ lastOp'.op = "tick"
          /\ ~Geq(windowEndBeat, Num(loopLength))
          /\ Geq(ResumeBeatOrZero, Num(0))
          /\ \A t \in Intervals : t.id = intervalID
          => Geq(beatNumber', beatNumber)
       /\ lastOp'.op # "tick" /\ beatNumber' # beatNumber =>
             lastOp'.op = "stopFunction" /\ beatNumber' = Num(0)]_vars

\* The tones among the new ones that were submitted for a note object.
NewTonesOf(id) == {j \in 1..Len(NewTones) : NewTones[j].note.id = id}

\* C37: a tick submits one tone for every stored reference to a note that
\* starts in its window [beatNumber, windowEndBeat), whenever the note was
\* added, and no tone for a note that is outside the window or that is not
\* stored when the tick runs.
C37_TickSeesEdits ==
    [][lastOp'.op = "tick" /\ timers' # timers =>
          \A id \in 1..Len(pool) :
             Cardinality(NewTonesOf(id)) =
                IF /\ Geq(Num(pool[id].start), beatNumber)
                   /\ Lt(Num(pool[id].start), windowEndBeat)
                THEN Cardinality(Occurrences(notes, id))
                ELSE 0]_vars

\* A tick has submitted the note that the editor added last, after the tone
\* of a note of an earlier window; that earlier note has been removed from
\* the sequence and no second tone was submitted for it.
C37_Witness ==
    /\ lastOp.op = "tick"
    /\ currentTime = Mul(Num(3), ClockStep)
    /\ seqCall.op = "addNote"
    /\ ~seqCall.present
    /\ Len(output) = 2
    /\ output[2].note.id = seqCall.note
    /\ output[1].note.id # seqCall.note
    /\ Occurrences(notes, output[1].note.id) = {}

(***************************************************************************)
(* The display of a note sequence                                          *)
(***************************************************************************)
\* The units of the display's converter.
units ==
    [beat  |-> [zero |-> 40, scaling |-> 40, clip |-> 20],
     pitch |-> [zero |-> 400, scaling |-> -20, clip |-> 20]]

\* LinearScaler.outputValuesFor, for one unit.
outputValuesFor(unit, value) ==
    units[unit].zero + units[unit].scaling * value

\* ClippingLinearScaler.round: Math.round rounds a half upwards.
round(value, precision, offset) ==
    LET rounded == (2 * (value - offset) + precision) \div (2 * precision)
    IN  rounded * precision + offset

\* ClippingLinearScaler.inputValuesFor, for one unit: the value is rounded
\* and handed to LinearScaler.inputValuesFor.
inputValuesFor(unit, value) ==
    Div(Num(round(value, units[unit].clip, units[unit].zero) - units[unit].zero),
        Num(units[unit].scaling))

NoteBlock(id, top, left, height, width) ==
    [id |-> id, top |-> top, left |-> left, height |-> height, width |-> width]

\* The blocks drawNotes creates, the first of them with the id firstId.
drawNotes(ns, firstId) ==
    LET shown == getNotes(ns, Num(0), Num(8))
    IN  [i \in 1..Len(shown) |->
            LET startBeat  == outputValuesFor("beat", shown[i].start)
                startPitch == outputValuesFor("pitch", shown[i].number)
                endBeat    == outputValuesFor("beat", shown[i].start + shown[i].length)
                endPitch   == outputValuesFor("pitch", shown[i].number + 1)
            IN  NoteBlock(firstId + i - 1, startPitch, startBeat,
                          Abs(endPitch - startPitch), Abs(endBeat - startBeat))]

overlapsWith(block, x, y) ==
    /\ block.top < x /\ x < block.top + block.height
    /\ block.left < y /\ y < block.left + block.width

pointNotCovered(bs, x, y) ==
    \A i \in 1..Len(bs) : ~overlapsWith(bs[i], x, y)

\* The clientX and clientY of the clicks; each snaps to a whole beat.
ClickXs == {85, 125, 405}

ClickYs == {100, 385, 405}

\* A display that was constructed on an empty note sequence.
DisplayInit ==
    /\ SequencerInit
    /\ timeline = BeatTimelineInit(Num(120), Undefined, currentTime)
    /\ notes = <<>>
    /\ pool = <<>>
    /\ listeners = <<1>>
    /\ notified = <<>>
    /\ seqCall = NoCall
    /\ probe = NoProbe
    /\ LibraryInit

\* clickListener, with the notify call addNote makes on the display.
Click(x, y) ==
    /\ Len(notes) < MaxNotes
    /\ LET beat  == inputValuesFor("beat", x)
           pitch == inputValuesFor("pitch", y)
           r     == addNote(notes, listeners, Note(Len(notes) + 1, beat[1], 1, pitch[1]))
       IN  /\ beat[2] = 1
           /\ pitch[2] = 1
           /\ click' = [set |-> TRUE, x |-> x, y |-> y,
                        notCovered |-> pointNotCovered(blocks, x, y)]
           /\ IF pointNotCovered(blocks, x, y)
              THEN /\ notes' = r.notes
                   /\ notified' = r.notified
                   /\ blocks' = drawNotes(r.notes, nextId)
                   /\ nextId' = nextId + Len(getNotes(r.notes, Num(0), Num(8)))
              ELSE UNCHANGED <<notes, notified, blocks, nextId>>
    /\ UNCHANGED <<pool, listeners, seqCall, probe, timeline, sequencerVars,
                   scale, frequency, tree, heapLog>>

DisplayNext == \E x \in ClickXs, y \in ClickYs : Click(x, y)

DisplaySpec == DisplayInit /\ [][DisplayNext]_vars

\* The block's rectangle strictly contains the point (x, y).
Covers(block, x, y) ==
    /\ block.left < x /\ x < block.left + block.width
    /\ block.top < y /\ y < block.top + block.height

\* C39: a click finds its point not covered exactly when no displayed block
\* strictly contains the point, with x measured along the blocks' left and
\* width and y along their top and height, and a click adds a note only
\* when no block contains its point.
C39_PointNotCoveredIsContainment ==
    [][click'.set /\ (click' # click \/ notes' # notes) =>
          LET covered == \E i \in 1..Len(blocks) :
                            Covers(blocks[i], click'.x, click'.y)
          IN  /\ click'.notCovered <=> ~covered
              /\ notes' # notes => ~covered]_vars

(***************************************************************************)
(* The loop without an end                                                 *)
(*                                                                         *)
(* beatFor, timeFor and the host's timers read differences of times only,  *)
(* so a run is the same run when its clock, its timeline's reference time  *)
(* and its timers' due times are all moved by one amount.  The actions     *)
(* below keep the state up to that shift: at a wrap every time is measured *)
(* from the start of the new pass, and output holds the tones of the       *)
(* current pass.  The runs of the loop then form a finite graph.           *)
(***************************************************************************)
\* The tempos of the sequencers that are left playing.
LiveTempos == {Num(1800), Num(900)}

\* The clock is observed once in every period of the interval.
LiveStep == Seconds(scheduleIntervalMs)

\* The host runs the interval's callback at most MaxLate periods late.
MaxLate == 1

\* A new sequencer whose client calls play once.
LiveInit ==
    /\ currentTime = Num(0)
    /\ \E tempo \in LiveTempos :
          timeline = BeatTimelineInit(tempo, Undefined, currentTime)
    /\ playing = FALSE
    /\ beatNumber = Num(0)
    /\ resumeBeat = Undefined
    /\ intervalID = 0
    /\ timers = {}
    /\ nextTimer = 1
    /\ notes \in NoteSequences
    /\ output = <<>>
    /\ lastOp = Op("init")
    /\ stopRan = FALSE
    /\ tempoChange = [set |-> FALSE, pivotBeat |-> Num(0), pivotTime |-> Num(0),
                      beatsPerMinute |-> Num(0), wrapped |-> FALSE, replayed |-> FALSE]
    /\ calls = 0
    /\ callLimit = 1
    /\ pool = notes
    /\ listeners = <<>>
    /\ notified = <<>>
    /\ seqCall = NoCall
    /\ probe = NoProbe
    /\ LibraryInit

\* The tones with their times moved back by shift seconds.
ShiftTones(tones, shift) ==
    [i \in 1..Len(tones) |->
        [tones[i] EXCEPT !.start = Sub(@, shift), !.stop = Sub(@, shift)]]

\* scheduleNotes run by the interval; a tick that wraps is labelled "wrap",
\* and the first tick after it starts the record of a new pass.
LiveTick(t) ==
    /\ t \in timers /\ t.kind = "interval" /\ Due(t)
    /\ LET r         == scheduleNotes(timeline, notes, beatNumber, currentTime)
           shift     == Sub(r.timeline.referenceTime, timeline.referenceTime)
           passTones == IF lastOp.op = "tick" THEN output \o r.tones ELSE r.tones
       IN  /\ output' = ShiftTones(passTones, shift)
           /\ beatNumber' = r.beatNumber
           /\ timeline' = [r.timeline EXCEPT !.referenceTime = Sub(@, shift)]
           /\ currentTime' = Sub(currentTime, shift)
           /\ lastOp' = [op    |-> IF Geq(r.endBeat, Num(loopLength))
                                   THEN "wrap" ELSE "tick",
                         tones |-> Len(r.tones)]
           /\ tempoChange' =
                 [tempoChange EXCEPT
                    !.wrapped = @ \/ Geq(r.endBeat, Num(loopLength))]
           /\ timers' = (timers \ {t})
                           \cup {[t EXCEPT !.due = Add(Sub(currentTime, shift),
                                                       Seconds(scheduleIntervalMs))]}
    /\ UNCHANGED <<seqVars, probe, libraryVars, callLimit>>
    /\ UNCHANGED <<playing, resumeBeat, intervalID, nextTimer, notes, calls, stopRan>>

\* The audio clock, once play was called: it passes no timeout that is due,
\* and it leaves the interval at most MaxLate periods behind.
LiveClock ==
    /\ timers # {}
    /\ \A t \in timers :
          IF t.kind = "interval"
          THEN Lt(currentTime, Add(t.due, Mul(Num(MaxLate), LiveStep)))
          ELSE Lt(currentTime, t.due)
    /\ currentTime' = Add(currentTime, LiveStep)
    /\ UNCHANGED <<seqVars, probe, libraryVars, callLimit>>
    /\ UNCHANGED <<timeline, playing, beatNumber, resumeBeat, intervalID, timers,
                   nextTimer, notes, output, calls, lastOp, stopRan, tempoChange>>

\* One play call, then the interval and the clock.
LiveNext ==
    \/ \E t \in timers : LiveTick(t)
    \/ calls = 0 /\ Play(Num(0))
    \/ \E t \in timers : PlayFunction(t)
    \/ LiveClock

\* LiveTick is enabled exactly when an interval is due.
IntervalDue == \E t \in timers : t.kind = "interval" /\ Due(t)

\* The steps of LiveNext that are steps of LiveTick.
TickStep == lastOp'.op \in {"tick", "wrap"} /\ timers' # timers

\* The audio clock runs by itself and the host keeps running the callback
\* of a registered interval: weak fairness of LiveClock and of LiveTick, the
\* latter written with its enabling condition.
LiveSpec ==
    /\ LiveInit
    /\ [][LiveNext]_vars
    /\ WF_vars(LiveClock)
    /\ []<>~IntervalDue \/ []<><<TickStep>>_vars

\* The notes of the sequence that start inside the loop.
LoopNotes == {i \in 1..Len(notes) : notes[i].start >= 0 /\ notes[i].start < loopLength}

\* A tick that wraps the loop.
WrapStep == lastOp'.op = "wrap" /\ timers' # timers

\* C38: while the sequencer plays, with the clock advancing and the interval
\* firing, the loop wraps again and again, and in every pass, by the tick
\* that wraps it, a tone was submitted for every note that starts in [0, 8).
C38_LoopKeepsWrapping ==
    /\ [][WrapStep =>
             \A i \in LoopNotes :
                \E j \in 1..Len(output') : output'[j].note.id = notes[i].id]_vars
    /\ <>playing => []<><<WrapStep>>_vars

\* A pass has just been wrapped at a tempo of 900, ahead of the start of
\* the next pass, with a tone for each note of the loop.
C38_Witness ==
    /\ playing
    /\ lastOp.op = "wrap"
    /\ timeline.beatsPerMinute = Num(900)
    /\ Lt(currentTime, Num(0))
    /\ \A i \in LoopNotes : \E j \in 1..Len(output) : output[j].note.id = notes[i].id

====
